---- MODULE Spec2Model ----
(***************************************************************************)
(* Model of bootstrap.mjs: a zx script that creates a project folder and   *)
(* runs ten set-up functions one after the other.  Every statement with an *)
(* effect is either an awaited external process ($`...`) or a synchronous  *)
(* filesystem call (fs.*, cd).  The functions are straight-line code, so   *)
(* each one is modelled as the sequence of its statements, and the script  *)
(* as the concatenation of the functions in the order of the calls at the  *)
(* bottom of the file.  A statement is identified by its source line.      *)
(***************************************************************************)
EXTENDS Integers, Sequences, FiniteSets, TLC

\* How many times the script is launched against the same target path.
MaxRuns == 2

\* ------------------------------------------------------------------ data

ProjectFolder == "PROJECT_FOLDER"

St(fn, kind, cmd, args, line) ==
  [fn |-> fn, kind |-> kind, cmd |-> cmd, args |-> args, line |-> line]

devDependencies ==
  << "@commitlint/cli", "@commitlint/config-conventional",
     "@semantic-release/changelog", "@semantic-release/git", "@types/jest",
     "cspell", "eslint-config-airbnb-base@latest", "eslint-config-prettier",
     "eslint-plugin-import@^2.25.2", "eslint-plugin-markdownlint",
     "eslint-plugin-prettier", "eslint@^8.2.0", "husky",
     "imagemin-lint-staged", "jest", "lint-staged", "markdownlint",
     "markdownlint-cli", "nodemon", "prettier", "semantic-release" >>

prepare ==
  << St("prepare", "$",  "rm -rf",        <<ProjectFolder>>, 9),
     St("prepare", "fs", "mkdirSync",     <<ProjectFolder>>, 10),
     St("prepare", "fs", "cd",            <<ProjectFolder>>, 12),
     St("prepare", "$",  "npm init",      <<"-y">>,          14),
     St("prepare", "$",  "git init",      <<"-">>,           15),
     St("prepare", "fs", "writeFileSync", <<".gitignore">>,  16) >>

installDependencies ==
  << St("installDependencies", "$", "npm install",
        <<"--save-dev">> \o devDependencies, 44) >>

prepareHusky ==
  << St("prepareHusky", "$", "npx husky install", <<"--no-install">>, 49) >>

prepareSpellChecker ==
  << St("prepareSpellChecker", "fs", "ensureFileSync", <<"cspell.json">>, 54),
     St("prepareSpellChecker", "fs", "writeJSONSync",  <<"cspell.json">>, 55) >>

\* prepareCommitLint without its chmod.
prepareCommitLintNoChmod ==
  << St("prepareCommitLint", "fs", "ensureFileSync", <<"commitlint.config.js">>, 74),
     St("prepareCommitLint", "fs", "writeFileSync",  <<"commitlint.config.js">>, 75),
     St("prepareCommitLint", "fs", "ensureFileSync", <<".husky/commit-msg">>, 84),
     St("prepareCommitLint", "fs", "writeFileSync",  <<".husky/commit-msg">>, 85) >>

prepareCommitLint ==
  << St("prepareCommitLint", "fs", "ensureFileSync", <<"commitlint.config.js">>, 74),
     St("prepareCommitLint", "fs", "writeFileSync",  <<"commitlint.config.js">>, 75),
     St("prepareCommitLint", "fs", "ensureFileSync", <<".husky/commit-msg">>, 84),
     St("prepareCommitLint", "fs", "writeFileSync",  <<".husky/commit-msg">>, 85),
     St("prepareCommitLint", "$",  "chmod",          <<".husky/commit-msg", "a+x">>, 93) >>

prepareLinter ==
  << St("prepareLinter", "fs", "ensureFileSync", <<".eslintrc.js">>,   98),
     St("prepareLinter", "fs", "writeFileSync",  <<".eslintrc.js">>,   99),
     St("prepareLinter", "fs", "ensureFileSync", <<".eslintignore">>, 122),
     St("prepareLinter", "fs", "writeFileSync",  <<".eslintignore">>, 123) >>

\* prepareFormatter without the write of its ignore list.
prepareFormatterNoIgnore ==
  << St("prepareFormatter", "fs", "ensureFileSync", <<".prettierrc">>,     135),
     St("prepareFormatter", "fs", "writeFileSync",  <<".prettierrc">>,     136),
     St("prepareFormatter", "fs", "ensureFileSync", <<".prettierignore">>, 148) >>

prepareFormatter ==
  << St("prepareFormatter", "fs", "ensureFileSync", <<".prettierrc">>,     135),
     St("prepareFormatter", "fs", "writeFileSync",  <<".prettierrc">>,     136),
     St("prepareFormatter", "fs", "ensureFileSync", <<".prettierignore">>, 148),
     St("prepareFormatter", "fs", "writeFileSync",  <<".prettierignore">>, 149) >>

prepareLintStaged ==
  << St("prepareLintStaged", "fs", "ensureFileSync", <<".lintstagedrc">>, 154),
     St("prepareLintStaged", "fs", "writeJSONSync",  <<".lintstagedrc">>, 155),
     St("prepareLintStaged", "fs", "ensureFileSync", <<".husky/pre-commit">>, 166),
     St("prepareLintStaged", "fs", "writeFileSync",  <<".husky/pre-commit">>, 167),
     St("prepareLintStaged", "$",  "chmod",          <<".husky/pre-commit", "a+x">>, 174) >>

prepareSemanticRelease ==
  << St("prepareSemanticRelease", "fs", "writeJSONSync", <<".releaserc.json">>, 179),
     St("prepareSemanticRelease", "$", "npm set-script",
        <<"release", "semantic-release">>, 200),
     St("prepareSemanticRelease", "$", "npm set-script",
        <<"release:dry", "semantic-release --dry-run">>, 201) >>

\* prepareTest without its run-script registration.
prepareTestNoScript ==
  << St("prepareTest", "fs", "ensureFileSync", <<"jest.config.js">>, 206),
     St("prepareTest", "fs", "writeFileSync",  <<"jest.config.js">>, 207) >>

prepareTest ==
  << St("prepareTest", "fs", "ensureFileSync", <<"jest.config.js">>, 206),
     St("prepareTest", "fs", "writeFileSync",  <<"jest.config.js">>, 207),
     St("prepareTest", "$",  "npm set-script", <<"test", "jest">>,   222) >>

\* The calls with prepareHusky moved before installDependencies.
PipelineSwapped ==
  << prepare, prepareHusky, installDependencies, prepareSpellChecker,
     prepareCommitLint, prepareLinter, prepareFormatter, prepareLintStaged,
     prepareSemanticRelease, prepareTest >>

\* The calls at the bottom of the script, in their order.
Pipeline ==
  << prepare, installDependencies, prepareHusky, prepareSpellChecker,
     prepareCommitLint, prepareLinter, prepareFormatter, prepareLintStaged,
     prepareSemanticRelease, prepareTest >>

RECURSIVE Concat(_)
Concat(seqs) == IF seqs = <<>> THEN <<>> ELSE Head(seqs) \o Concat(Tail(seqs))

Script == Concat(Pipeline)

\* A $`...` whose promise is not awaited.
NoAwait(st) == FALSE

\* Every $`...` of the script is awaited: the script is suspended until the
\* process exits.
Awaits(st) == st.kind = "$"

\* A statement whose error is caught and dropped.
Caught(st) == FALSE

\* No try/catch encloses any statement: a rejection or a throw reaches the
\* top level of the module.
Uncaught(st) == TRUE

\* An exit status that ignores the error.
ExitStatusAlwaysZero(ok) == 0

\* The exit status of the run: an uncaught error ends the process with 1.
ExitStatus(ok) == IF ok THEN 0 ELSE 1

\* ------------------------------------------------------------ filesystem

Paths ==
  { ".gitignore", "cspell.json", "commitlint.config.js", ".husky/commit-msg",
    ".eslintrc.js", ".eslintignore", ".prettierrc", ".prettierignore",
    ".lintstagedrc", ".husky/pre-commit", ".releaserc.json", "jest.config.js",
    "package.json", "package-lock.json", ".git", "node_modules",
    ".husky/_/husky.sh", "stale.txt" }

ScriptNames == { "test", "release", "release:dry" }

\* What the target folder may hold before the first run.
StaleFiles == { "stale.txt", ".husky/commit-msg" }

NoDir ==
  [ exists  |-> FALSE,
    files   |-> [p \in Paths |-> "absent"],
    xbit    |-> {},
    scripts |-> [n \in ScriptNames |-> "absent"],
    devDeps |-> {} ]

Range(s) == { s[i] : i \in DOMAIN s }

\* A removal that unlinks the folder and leaves what it held.
RmKeepsContents(d) == [d EXCEPT !.exists = FALSE]

RmRf(d) == NoDir

MkdirSync(d) == [d EXCEPT !.exists = TRUE]

NpmInit(d) ==
  IF d.files["package.json"] # "absent" THEN d
  ELSE [d EXCEPT !.files["package.json"] = "tool",
                 !.scripts["test"] = "echo \"Error: no test specified\" && exit 1"]

GitInit(d) == [d EXCEPT !.files[".git"] = "tool"]

NpmInstall(d, args) ==
  [d EXCEPT !.files["node_modules"] = "tool",
            !.files["package-lock.json"] = "tool",
            !.files["package.json"] = "tool",
            !.devDeps = Range(Tail(args))]

HuskyInstall(d) == [d EXCEPT !.files[".husky/_/husky.sh"] = "tool"]

EnsureFileSync(d, p) ==
  IF d.files[p] = "absent" THEN [d EXCEPT !.files[p] = "empty"] ELSE d

WriteFileSync(d, p) == [d EXCEPT !.files[p] = "static"]

WriteJSONSync(d, p) == [d EXCEPT !.files[p] = "static"]

\* A mode change that sets no bit.
ChmodNoBit(d, p) == d

Chmod(d, p) == [d EXCEPT !.xbit = @ \cup {p}]

NpmSetScript(d, name, cmd) ==
  [d EXCEPT !.scripts[name] = cmd, !.files["package.json"] = "tool"]

\* What a statement does to the target folder when it succeeds.
Effect(st, d) ==
  CASE st.cmd = "rm -rf"            -> RmRf(d)
    [] st.cmd = "mkdirSync"         -> MkdirSync(d)
    [] st.cmd = "cd"                -> d
    [] st.cmd = "npm init"          -> NpmInit(d)
    [] st.cmd = "git init"          -> GitInit(d)
    [] st.cmd = "npm install"       -> NpmInstall(d, st.args)
    [] st.cmd = "npx husky install" -> HuskyInstall(d)
    [] st.cmd = "ensureFileSync"    -> EnsureFileSync(d, st.args[1])
    [] st.cmd = "writeFileSync"     -> WriteFileSync(d, st.args[1])
    [] st.cmd = "writeJSONSync"     -> WriteJSONSync(d, st.args[1])
    [] st.cmd = "chmod"             -> Chmod(d, st.args[1])
    [] st.cmd = "npm set-script"    -> NpmSetScript(d, st.args[1], st.args[2])

\* Whether a statement can succeed at all on this folder; it can always fail.
Succeeds(st, d) ==
  CASE st.cmd = "mkdirSync"         -> ~d.exists
    [] st.cmd = "cd"                -> d.exists
    [] st.cmd = "rm -rf"            -> TRUE
    [] st.cmd = "npx husky install" -> /\ d.exists
                                       /\ d.files[".git"] # "absent"
                                       /\ "husky" \in d.devDeps
    [] st.cmd = "chmod"             -> d.exists /\ d.files[st.args[1]] # "absent"
    [] st.cmd = "npm set-script"    -> d.exists /\ d.files["package.json"] # "absent"
    [] OTHER                        -> d.exists

\* ----------------------------------------------------------------- state

VARIABLES
  disk,       \* the target folder
  before,     \* the target folder as it was when this run was launched
  cwd,        \* working directory of the running script
  pc,         \* index in Script of the next statement
  awaiting,   \* the script is suspended on an awaited process
  inflight,   \* indices in Script of the processes spawned and not yet exited
  status,     \* "running", "completed" or "failed"
  exitCode,   \* <<>> while running, <<code>> once the run has ended
  started,    \* lines of the statements begun in this run, in order
  completed,  \* lines of the statements that succeeded in this run, in order
  failedAt,   \* line of the statement that failed in this run, 0 if none
  run         \* number of the current run

vars == << disk, before, cwd, pc, awaiting, inflight, status, exitCode, started,
           completed, failedAt, run >>

InitDisks ==
  { NoDir } \cup
  { [ NoDir EXCEPT !.exists = TRUE,
                   !.files = [p \in Paths |-> IF p \in S THEN "stale" ELSE "absent"],
                   !.xbit = X ] :
      <<S, X>> \in { sx \in (SUBSET StaleFiles) \X (SUBSET StaleFiles) :
                       sx[2] \subseteq sx[1] } }

Init ==
  /\ disk \in InitDisks
  /\ before = disk
  /\ cwd = "."
  /\ pc = 1
  /\ awaiting = FALSE
  /\ inflight = {}
  /\ status = "running"
  /\ exitCode = <<>>
  /\ started = <<>>
  /\ completed = <<>>
  /\ failedAt = 0
  /\ run = 1

\* Control moves to statement p; past the last statement the run ends with
\* exit status 0.
Goto(p) ==
  /\ pc' = p
  /\ status' = IF p > Len(Script) THEN "completed" ELSE "running"
  /\ exitCode' = IF p > Len(Script) THEN <<ExitStatus(TRUE)>> ELSE exitCode

\* A statement failed: uncaught, the error ends the run.
Fail(st) ==
  /\ failedAt' = st.line
  /\ IF Uncaught(st)
       THEN /\ status' = "failed"
            /\ exitCode' = <<ExitStatus(FALSE)>>
            /\ pc' = pc
       ELSE Goto(pc + 1)

\* A process exit that wakes nobody.
NeverResumes(p) == FALSE

\* The awaiting script resumes when the process it awaits exits.
Resumes(p) == status = "running" /\ awaiting /\ p = pc

\* $`cmd`: spawn the external process of the statement at pc.
Exec ==
  /\ status = "running" /\ ~awaiting /\ pc <= Len(Script)
  /\ Script[pc].kind = "$"
  /\ inflight' = inflight \cup {pc}
  /\ started' = Append(started, Script[pc].line)
  /\ awaiting' = Awaits(Script[pc])
  /\ IF Awaits(Script[pc])
       THEN UNCHANGED << pc, status, exitCode >>
       ELSE Goto(pc + 1)
  /\ UNCHANGED << disk, before, cwd, completed, failedAt, run >>

\* A spawned process exits with status 0: its effect is on disk and the
\* awaiting script resumes after it.
ExitZero ==
  \E p \in inflight :
    /\ Succeeds(Script[p], disk)
    /\ disk' = Effect(Script[p], disk)
    /\ inflight' = inflight \ {p}
    /\ completed' = Append(completed, Script[p].line)
    /\ IF Resumes(p)
         THEN awaiting' = FALSE /\ Goto(pc + 1)
         ELSE UNCHANGED << awaiting, pc, status, exitCode >>
    /\ UNCHANGED << before, cwd, started, failedAt, run >>

\* A spawned process exits with a non-zero status: the promise rejects.
ExitNonZero ==
  \E p \in inflight :
    /\ inflight' = inflight \ {p}
    /\ IF status = "running"
         THEN awaiting' = FALSE /\ Fail(Script[p])
         ELSE UNCHANGED << awaiting, pc, status, exitCode, failedAt >>
    /\ UNCHANGED << disk, before, cwd, started, completed, run >>

\* fs.mkdirSync, cd, fs.ensureFileSync, fs.writeFileSync, fs.writeJSONSync:
\* the synchronous call at pc succeeds.
SyncCall ==
  /\ status = "running" /\ ~awaiting /\ pc <= Len(Script)
  /\ Script[pc].kind = "fs"
  /\ Succeeds(Script[pc], disk)
  /\ disk' = Effect(Script[pc], disk)
  /\ cwd' = IF Script[pc].cmd = "cd" THEN Script[pc].args[1] ELSE cwd
  /\ started' = Append(started, Script[pc].line)
  /\ completed' = Append(completed, Script[pc].line)
  /\ Goto(pc + 1)
  /\ UNCHANGED << before, awaiting, inflight, failedAt, run >>

\* Whether a synchronous call can throw: a filesystem call always can (no
\* permission, no space); cd throws only when the folder is not there.
MayThrow(st, d) == st.cmd # "cd" \/ ~Succeeds(st, d)

\* The synchronous call at pc throws.
Throw ==
  /\ status = "running" /\ ~awaiting /\ pc <= Len(Script)
  /\ Script[pc].kind = "fs"
  /\ MayThrow(Script[pc], disk)
  /\ started' = Append(started, Script[pc].line)
  /\ Fail(Script[pc])
  /\ UNCHANGED << disk, before, cwd, awaiting, inflight, completed, run >>

\* The script is launched again against the same target path, in a new
\* process that starts in the original working directory.
Launch ==
  /\ status # "running" /\ inflight = {} /\ run < MaxRuns
  /\ run' = run + 1
  /\ cwd' = "."
  /\ pc' = 1
  /\ awaiting' = FALSE
  /\ status' = "running"
  /\ exitCode' = <<>>
  /\ started' = <<>>
  /\ completed' = <<>>
  /\ failedAt' = 0
  /\ before' = disk
  /\ UNCHANGED << disk, inflight >>

Next == Exec \/ ExitZero \/ ExitNonZero \/ SyncCall \/ Throw \/ Launch

Spec == Init /\ [][Next]_vars

\* The script's own steps are taken whenever they stay possible (the event
\* loop runs a ready continuation); whether a process ever exits is up to
\* the process.
LiveSpec == Spec /\ WF_vars(Exec \/ SyncCall \/ Throw)

\* ---------------------------------------------------------- vocabulary

\* The fixed order of the ten stages.
StageOrder ==
  << "prepare", "installDependencies", "prepareHusky", "prepareSpellChecker",
     "prepareCommitLint", "prepareLinter", "prepareFormatter",
     "prepareLintStaged", "prepareSemanticRelease", "prepareTest" >>

Stages == DOMAIN StageOrder

StmtAt(line) == CHOOSE st \in Range(Script) : st.line = line

StageOfLine(line) == CHOOSE i \in Stages : StageOrder[i] = StmtAt(line).fn

LinesOf(i) == { st.line : st \in { x \in Range(Script) : x.fn = StageOrder[i] } }

FirstLine(i) == CHOOSE l \in LinesOf(i) : \A m \in LinesOf(i) : l <= m

StageDone(i) == LinesOf(i) \subseteq Range(completed)

Count(cmd) ==
  Cardinality({ i \in DOMAIN started : StmtAt(started[i]).cmd = cmd })

Times(line) == Cardinality({ i \in DOMAIN started : started[i] = line })

Terminal == status \in { "completed", "failed" }

\* The stage that failed; one past the last stage when none did.
FailStage == IF failedAt = 0 THEN Len(StageOrder) + 1 ELSE StageOfLine(failedAt)

\* This run removed whatever the target folder held before it.
Removed == 9 \in Range(completed)

Fact(t, p, v) == [t |-> t, p |-> p, v |-> v]

\* What each stage leaves in the target folder: files the script writes,
\* entries an external tool creates, executable bits, run-scripts.
StageEffects(i) ==
  CASE i = 1  -> { Fact("dir", ".", ""), Fact("tool", "package.json", ""),
                   Fact("tool", ".git", ""), Fact("file", ".gitignore", "") }
    [] i = 2  -> { Fact("tool", "node_modules", ""),
                   Fact("tool", "package-lock.json", "") }
    [] i = 3  -> { Fact("tool", ".husky/_/husky.sh", "") }
    [] i = 4  -> { Fact("file", "cspell.json", "") }
    [] i = 5  -> { Fact("file", "commitlint.config.js", ""),
                   Fact("file", ".husky/commit-msg", ""),
                   Fact("x", ".husky/commit-msg", "") }
    [] i = 6  -> { Fact("file", ".eslintrc.js", ""),
                   Fact("file", ".eslintignore", "") }
    [] i = 7  -> { Fact("file", ".prettierrc", ""),
                   Fact("file", ".prettierignore", "") }
    [] i = 8  -> { Fact("file", ".lintstagedrc", ""),
                   Fact("file", ".husky/pre-commit", ""),
                   Fact("x", ".husky/pre-commit", "") }
    [] i = 9  -> { Fact("file", ".releaserc.json", ""),
                   Fact("script", "release", "semantic-release"),
                   Fact("script", "release:dry", "semantic-release --dry-run") }
    [] i = 10 -> { Fact("file", "jest.config.js", ""),
                   Fact("script", "test", "jest") }

Present(f) ==
  CASE f.t = "dir"    -> disk.exists
    [] f.t = "tool"   -> disk.files[f.p] = "tool"
    [] f.t = "file"   -> disk.files[f.p] = "static"
    [] f.t = "x"      -> f.p \in disk.xbit /\ disk.files[f.p] = "static"
    [] f.t = "script" -> disk.scripts[f.p] = f.v

\* The effect is not there at all; what an earlier owner of the folder left
\* behind is no effect of a stage.
Missing(f) ==
  CASE f.t = "dir"    -> ~disk.exists
    [] f.t = "tool"   -> disk.files[f.p] \in { "absent", "stale" }
    [] f.t = "file"   -> disk.files[f.p] \in { "absent", "stale" }
    [] f.t = "x"      -> f.p \notin disk.xbit \/ disk.files[f.p] = "stale"
    [] f.t = "script" -> disk.scripts[f.p] # f.v

AllEffects(i) == \A f \in StageEffects(i) : Present(f)

NoEffects(i) == \A f \in StageEffects(i) : Missing(f)

\* The files the script itself has written with their final content.
Written == { p \in Paths : disk.files[p] = "static" }

\* ----------------------------------------------------------------- C1

\* C1: the stages run in the fixed order; no statement of a stage begins
\* before every statement of the stages before it has completed, a statement
\* begins only when the one before it has completed, at most one external
\* process is in flight, and a completed run went through all ten stages.
C1_FixedOrder ==
  /\ Cardinality(inflight) <= 1
  /\ Len(started) <= Len(completed) + 1
  /\ \A j \in DOMAIN started :
       /\ \A i \in 1..(j - 1) : StageOfLine(started[i]) <= StageOfLine(started[j])
       /\ \A s \in 1..(StageOfLine(started[j]) - 1) : StageDone(s)
  /\ status = "completed" =>
       /\ { StageOfLine(l) : l \in Range(started) } = Stages
       /\ \A s \in Stages : StageDone(s)

C1_Witness ==
  /\ status = "running" /\ awaiting
  /\ Script[pc].fn = "prepareTest"
  /\ inflight = {pc}

\* ----------------------------------------------------------------- C2

\* C2: once a statement has failed the run is over: the failed statement is
\* the last one begun, everything before it completed, nothing is in flight,
\* no later statement was begun; after a failed dependency install none of
\* the later stages has left anything in the target folder.
C2_AbortOnFailure ==
  failedAt # 0 =>
    /\ status = "failed" /\ inflight = {} /\ ~awaiting
    /\ started # <<>> /\ started[Len(started)] = failedAt
    /\ completed = SubSeq(started, 1, Len(started) - 1)
    /\ \A l \in Range(started) : l <= failedAt
    /\ StmtAt(failedAt).fn = "installDependencies" =>
         \A s \in Stages : s > 2 =>
           /\ NoEffects(s)
           /\ LinesOf(s) \cap Range(started) = {}

C2_Witness ==
  /\ status = "failed"
  /\ failedAt # 0 /\ StmtAt(failedAt).fn = "installDependencies"
  /\ AllEffects(1)

\* ----------------------------------------------------------------- C3

\* The target folder after a successful run.
FreshTree ==
  [ exists  |-> TRUE,
    files   |-> [p \in Paths |->
                  IF p \in { "package.json", "package-lock.json", ".git",
                             "node_modules", ".husky/_/husky.sh" } THEN "tool"
                  ELSE IF p = "stale.txt" THEN "absent"
                  ELSE "static"],
    xbit    |-> { ".husky/commit-msg", ".husky/pre-commit" },
    scripts |-> [n \in ScriptNames |->
                  CASE n = "test" -> "jest"
                    [] n = "release" -> "semantic-release"
                    [] n = "release:dry" -> "semantic-release --dry-run"],
    devDeps |-> Range(devDependencies) ]

\* C3: every run removes what the target folder held and creates it anew, so
\* the folder after a successful run is the same whatever it held before:
\* after a second run it equals the folder after a single run.
C3_SameTreeEveryRun ==
  /\ status = "completed" => disk = FreshTree
  /\ 10 \in Range(completed) =>
       /\ Removed
       /\ \A p \in Paths : disk.files[p] # "stale"
       /\ disk.xbit \subseteq Written

C3_Witness ==
  /\ run = 2 /\ status = "completed" /\ disk = FreshTree
  /\ before = FreshTree

\* ----------------------------------------------------------------- C4

\* C4 as stated: a completed run has written exactly ten files.
C4_TenArtifacts == status = "completed" => Cardinality(Written) = 10

ExpectedArtifacts ==
  { ".gitignore", "cspell.json", "commitlint.config.js", ".husky/commit-msg",
    ".eslintrc.js", ".eslintignore", ".prettierrc", ".prettierignore",
    ".lintstagedrc", ".husky/pre-commit", ".releaserc.json", "jest.config.js" }

\* C4 amended: a completed run has written exactly twelve files, the ones
\* listed, and every other entry of the folder comes from an external tool.
C4_TwelveArtifacts ==
  status = "completed" =>
    /\ Written = ExpectedArtifacts
    /\ Cardinality(Written) = 12
    /\ \A p \in Paths \ Written : disk.files[p] \in { "tool", "absent" }

C4_Witness == status = "completed" /\ run = 1 /\ Cardinality(Written) = 12

\* ----------------------------------------------------------------- C5

\* C5: from the moment the commit-linter stage has completed the commit-msg
\* hook exists and is executable, and from the moment the staged-file-lint
\* stage has completed the pre-commit hook exists and is executable, in
\* every later state of the run.
C5_HooksExecutable ==
  /\ StageDone(5) =>
       /\ disk.files[".husky/commit-msg"] = "static"
       /\ ".husky/commit-msg" \in disk.xbit
  /\ StageDone(8) =>
       /\ disk.files[".husky/pre-commit"] = "static"
       /\ ".husky/pre-commit" \in disk.xbit

C5_Witness ==
  /\ StageDone(5) /\ StageDone(8) /\ status = "failed"
  /\ { ".husky/commit-msg", ".husky/pre-commit" } \subseteq disk.xbit

\* ----------------------------------------------------------------- C6

\* C6 as stated: a completed run made exactly these process invocations:
\* npm init, npm install, git init and husky install once each, chmod twice,
\* and two run-script registrations.
C6_InvocationsAsListed ==
  status = "completed" =>
    /\ Count("npm init") = 1 /\ Count("npm install") = 1
    /\ Count("git init") = 1 /\ Count("npx husky install") = 1
    /\ Count("chmod") = 2
    /\ Count("npm set-script") = 2
    /\ Cardinality({ i \in DOMAIN started : StmtAt(started[i]).kind = "$" }) = 8

\* C6 amended: a completed run made exactly these process invocations: the
\* removal of the target folder once, npm init, git init, npm install (with
\* the fixed package list) and husky install once each, chmod twice, once per
\* hook file, and three run-script registrations: release, release:dry, test.
C6_InvocationsExact ==
  status = "completed" =>
    /\ Count("rm -rf") = 1
    /\ Count("npm init") = 1 /\ Count("npm install") = 1
    /\ Count("git init") = 1 /\ Count("npx husky install") = 1
    /\ Count("chmod") = 2
    /\ Count("npm set-script") = 3
    /\ Cardinality({ i \in DOMAIN started : StmtAt(started[i]).kind = "$" }) = 10
    /\ { StmtAt(l).args[1] : l \in { m \in Range(started) : StmtAt(m).cmd = "chmod" } }
         = { ".husky/commit-msg", ".husky/pre-commit" }
    /\ { StmtAt(l).args[1] :
           l \in { m \in Range(started) : StmtAt(m).cmd = "npm set-script" } }
         = { "release", "release:dry", "test" }
    /\ \A l \in Range(started) : StmtAt(l).cmd = "npm install" =>
         /\ StmtAt(l).args = <<"--save-dev">> \o devDependencies
         /\ disk.devDeps = Range(devDependencies)
         /\ Cardinality(disk.devDeps) = 21

C6_Witness == status = "completed" /\ Count("npm set-script") = 3

\* ----------------------------------------------------------------- C7

\* C7: a run has no exit status while it runs; it ends with status 0 exactly
\* when all ten stages completed, and with a non-zero status exactly when a
\* statement failed, the first and only one that did.
C7_ExitStatus ==
  /\ status = "running" => exitCode = <<>> /\ failedAt = 0
  /\ status = "completed" =>
       /\ exitCode = <<0>> /\ failedAt = 0
       /\ \A s \in Stages : StageDone(s)
  /\ status = "failed" =>
       /\ Len(exitCode) = 1 /\ exitCode[1] # 0
       /\ failedAt # 0 /\ failedAt \notin Range(completed)
       /\ ~StageDone(StageOfLine(failedAt))
  /\ exitCode = <<0>> => status = "completed"

C7_Witness == status = "failed" /\ exitCode = <<1>> /\ StmtAt(failedAt).kind = "fs"

\* ----------------------------------------------------------------- C8

\* C8: after a failure nothing more happens in the run: no step changes the
\* target folder, begins or completes a statement or spawns a process, the
\* run stays failed, and the stages that completed before the failure still
\* have all their effects in the target folder.
C8_NoCleanupNoRetry ==
  /\ [](failedAt # 0 /\ Removed =>
          \A s \in Stages : s < FailStage => StageDone(s) /\ AllEffects(s))
  /\ [][failedAt # 0 /\ run' = run =>
          /\ disk' = disk /\ started' = started /\ completed' = completed
          /\ inflight' = inflight /\ status' = "failed" /\ status = "failed"
          /\ failedAt' = failedAt]_vars

C8_Witness ==
  /\ status = "failed" /\ FailStage = 9 /\ run = MaxRuns
  /\ \A s \in 1..8 : AllEffects(s)

\* ----------------------------------------------------------------- C9

\* C9 as stated: in every final state each stage has left either all of its
\* effects or none of them.  Stated for the runs that removed the old target
\* folder, so that nothing in the folder predates the run.
C9_StagesAtomic ==
  Terminal /\ Removed => \A s \in Stages : AllEffects(s) \/ NoEffects(s)

\* C9 amended: in every final state of a run that removed the old target
\* folder, every stage before the one that failed has left all of its
\* effects and every stage after it none; the stage that failed keeps the
\* effects of the statements that preceded the failure.
C9_OnlyFailedStagePartial ==
  Terminal /\ Removed =>
    /\ \A s \in Stages :
         /\ s < FailStage => AllEffects(s)
         /\ s > FailStage => NoEffects(s)
    /\ failedAt # 0 =>
         \A l \in LinesOf(FailStage) :
           (l < failedAt /\ StmtAt(l).cmd \in { "writeFileSync", "writeJSONSync" })
             => disk.files[StmtAt(l).args[1]] = "static"

C9_Witness ==
  /\ status = "failed" /\ failedAt = 93
  /\ disk.files[".husky/commit-msg"] = "static"
  /\ ".husky/commit-msg" \notin disk.xbit

\* ---------------------------------------------------------------- C10

EnteredOnce == \A s \in Stages : Times(FirstLine(s)) <= 1

\* C10: a run enters each stage at most once and is running, completed or
\* failed; if every spawned process eventually exits, every run eventually
\* completes or fails; a run that runs forever is, from some point on,
\* waiting for a process that never exits.
C10_LinearTermination ==
  /\ [](EnteredOnce /\ status \in { "running", "completed", "failed" })
  /\ [](inflight # {} => <>(inflight = {})) => [](status = "running" => <>Terminal)
  /\ <>[](status = "running") => <>[](inflight # {} /\ awaiting)

C10_Witness ==
  /\ run = MaxRuns /\ status = "failed"
  /\ StmtAt(failedAt).kind = "$" /\ StageDone(9)

====
